---- MODULE Spec2Model ----
(***************************************************************************)
(* A model of the peppergo gateway core: OpenRouterProvider.Generate and   *)
(* its retry loop, the streaming path (adapter producer, Service.StreamChat*)
(* forwarder, HTTP handler), streams running at the same time, and the     *)
(* provider registry of proxy.Service.                                     *)
(*                                                                         *)
(* Strings are sequences of words, so that strings.Contains and the        *)
(* wrapping done by fmt.Errorf("...: %w", err) are computed, not assumed.  *)
(* Temperatures are in tenths (0.7 is 7).                                  *)
(***************************************************************************)
EXTENDS Integers, Sequences, FiniteSets, TLC

VARIABLES
    ctx,        \* the request context: "live" or "cancelled"
    call,       \* the inputs of one Generate, Chat or Initialize call: the
                \* operation, prompt, opts, and the provider's limiter, API
                \* key and configuration
    backend,    \* what the backend answers to the k-th request it receives
    g,          \* the Generate call: pc, locals, result, and the history of
                \* its backend attempts (log), tokens taken and seconds slept

    providers,  \* Service.providers: name -> adapter, None where absent
    mu,         \* Service.mu: the writer holding it and the readers holding it
    rp,         \* the tasks calling the registry: pc, argument, return value
    ever,       \* history: name -> the first adapter registered under it
    sreq,       \* one chat request: the X-Provider header and the provider
                \* query parameter, the provider name they select, the body
                \* and its stream flag, and who consumes: the HTTP handler,
                \* or a caller of StreamChat
    up,         \* what the backend answers to the stream's request
    pr,         \* the adapter's producer task
    fw,         \* the forwarding task of Service.StreamChat
    chA,        \* the channel the adapter's producer sends on
    chN,        \* normalizedChan, the channel the forwarder sends on
    co,         \* the consumer: pc, response in hand, frames written, status,
                \* body written, and the history of its registry lookups and
                \* adapter calls
    sent,       \* history: the responses received from the producer's channel

    heap,       \* the channels made by concurrent streaming requests, by id
    rs          \* the concurrent streaming requests: for each its context,
                \* its producer, forwarder and consumer, the ids of the
                \* channels they hold, and the chunks its consumer received

genVars == <<call, backend, g>>
regVars == <<providers, mu, rp, ever>>
strVars == <<sreq, up, pr, fw, chA, chN, co, sent>>
dualVars == <<heap, rs>>
vars == <<ctx, call, backend, g, providers, mu, rp, ever,
          sreq, up, pr, fw, chA, chN, co, sent, heap, rs>>

\* what a step of Generate, of the registry, of a stream leaves alone
genOthers == <<regVars, strVars, dualVars>>
regOthers == <<ctx, genVars, strVars, dualVars>>
strOthers == <<genVars, regVars, dualVars>>
dualOthers == <<ctx, genVars, regVars, strVars>>

(***************************************************************************)
(* Bounds                                                                  *)
(***************************************************************************)
\* the largest retry budget given with WithRetries
MaxRetries == 3
\* the number of times Initialize is called on one provider
MaxInits == 2
\* the number of tasks that call the registry concurrently
NumTasks == 2
\* the largest number of words in a backend's answer
MaxWords == 2

(***************************************************************************)
(* Strings and errors                                                      *)
(***************************************************************************)
\* the nil error
NilErr == <<>>

\* strings.Contains on word sequences: sub occurs as a contiguous run of s
Contains(s, sub) ==
    \E i \in 0..(Len(s) - Len(sub)) : SubSeq(s, i + 1, i + Len(sub)) = sub

\* fmt.Errorf(prefix + ": %w", err); a nil err is printed as %!w(<nil>)
Wrap(prefix, err) ==
    prefix \o (IF err = NilErr THEN <<"%!w(<nil>)">> ELSE err)

isValidationError_Never(err) == FALSE

isValidationError(err) ==
    \/ Contains(err, <<"invalid">>)
    \/ Contains(err, <<"empty", "prompt">>)

Ok(content) == [ok |-> TRUE, body |-> content]
Fail(err) == [ok |-> FALSE, body |-> err]
NoResult == [ok |-> FALSE, body |-> NilErr]

(***************************************************************************)
(* Provider configuration and call options                                 *)
(***************************************************************************)
CfgTemperature == 7
CfgMaxTokens == 2000
CfgModel == "gemini"

WithTemperature(t) == [op |-> "Temperature", n |-> t, s |-> ""]
WithMaxTokens(m) == [op |-> "MaxTokens", n |-> m, s |-> ""]
WithModel(m) == [op |-> "Model", n |-> 0, s |-> m]
WithRetries(r) == [op |-> "Retries", n |-> r, s |-> ""]

\* an option applied to the options struct; Metadata is a map, nil when empty
ApplyOpt(o, opt) ==
    CASE opt.op = "Temperature" -> [o EXCEPT !.Temperature = opt.n]
      [] opt.op = "MaxTokens" -> [o EXCEPT !.MaxTokens = opt.n]
      [] opt.op = "Model" -> [o EXCEPT !.Model = opt.s]
      [] opt.op = "Retries" ->
            [o EXCEPT !.Metadata =
                [k \in DOMAIN o.Metadata \cup {"retries"} |->
                    IF k = "retries" THEN opt.n ELSE o.Metadata[k]]]

RECURSIVE ApplyOpts_FirstWins(_, _)
ApplyOpts_FirstWins(o, opts) ==
    IF opts = <<>> THEN o
    ELSE ApplyOpt(ApplyOpts_FirstWins(o, Tail(opts)), Head(opts))

\* for _, opt := range opts { opt(options) }
RECURSIVE ApplyOpts(_, _)
ApplyOpts(o, opts) ==
    IF opts = <<>> THEN o
    ELSE ApplyOpts(ApplyOpt(o, Head(opts)), Tail(opts))

DefaultOptions ==
    [Temperature |-> CfgTemperature, MaxTokens |-> CfgMaxTokens,
     Model |-> CfgModel, Metadata |-> <<>>]

ResolveOptions(opts) == ApplyOpts(DefaultOptions, opts)

Retries_AtLeastOne(options) ==
    IF "retries" \in DOMAIN options.Metadata /\ options.Metadata["retries"] >= 1
    THEN options.Metadata["retries"] ELSE 1

Retries_DefaultTwo(options) ==
    IF "retries" \in DOMAIN options.Metadata
    THEN options.Metadata["retries"] ELSE 2

\* retries := 1, overridden by options.Metadata["retries"] when it is set
Retries(options) ==
    IF "retries" \in DOMAIN options.Metadata
    THEN options.Metadata["retries"] ELSE 1

ValidateOptions_None(options) == NilErr

\* the error of the option validation, NilErr when the options are in range
ValidateOptions(options) ==
    IF options.Temperature < 0 \/ options.Temperature > 10
    THEN <<"invalid", "temperature:", "must", "be", "between", "0", "and", "1">>
    ELSE IF options.MaxTokens < 1
    THEN <<"invalid", "max", "tokens:", "must", "be", "greater", "than", "0">>
    ELSE NilErr

(***************************************************************************)
(* The backend and makeRequest                                             *)
(***************************************************************************)
NetErr(text) == [kind |-> "neterr", status |-> 0, choices |-> 0, text |-> text]
Http(status, choices, text) ==
    [kind |-> "http", status |-> status, choices |-> choices, text |-> text]

Transports ==
    { Http(200, 1, <<"hello">>),
      Http(500, 0, <<"overloaded">>),
      Http(400, 0, <<"invalid", "model">>),
      NetErr(<<"connection", "refused">>) }

CtxErr == <<"context", "canceled">>

StatusWord(code) ==
    CASE code = 400 -> "400:" [] code = 500 -> "500:" [] OTHER -> "200:"

\* makeRequest on what the HTTP client returned
makeRequest(t) ==
    IF t.kind = "neterr"
    THEN Fail(Wrap(<<"failed", "to", "send", "request:">>, t.text))
    ELSE IF t.status # 200
    THEN Fail(<<"request", "failed", "with", "status", StatusWord(t.status)>> \o t.text)
    ELSE IF t.choices = 0
    THEN Fail(<<"no", "choices", "in", "response">>)
    ELSE Ok(t.text)

\* the k-th round trip: a cancelled context fails the request
Transport(k) == IF ctx = "cancelled" THEN NetErr(CtxErr) ELSE backend[k]

(***************************************************************************)
(* OpenRouterProvider.Generate                                             *)
(***************************************************************************)
Options ==
    {WithTemperature(1), WithTemperature(20), WithMaxTokens(20), WithMaxTokens(-1),
     WithModel("gpt")} \cup {WithRetries(r) : r \in -1..MaxRetries}

OptLists ==
    {<<>>} \cup {<<a>> : a \in Options} \cup {<<a, b>> : a, b \in Options}

\* the configuration of the provider's tests
TestConfig ==
    [APIKey |-> "test-key", Model |-> CfgModel, MaxTokens |-> CfgMaxTokens,
     Temperature |-> CfgTemperature]

\* the configurations NewOpenRouterProvider may be given
Configs ==
    [APIKey : {"", "test-key"}, Model : {"", CfgModel},
     MaxTokens : {-1, 0, 1, CfgMaxTokens},
     Temperature : {-1, 0, CfgTemperature, 10, 15}]

Initialize_NoModelCheck(cfg) ==
    IF cfg.APIKey = "" THEN <<"API", "key", "is", "required">>
    ELSE IF cfg.Temperature < 0 \/ cfg.Temperature > 10
    THEN <<"invalid", "temperature:", "must", "be", "between", "0", "and", "1">>
    ELSE IF cfg.MaxTokens < 1
    THEN <<"invalid", "max", "tokens:", "must", "be", "greater", "than", "0">>
    ELSE NilErr

\* Initialize: the error it returns for a configuration, NilErr for none
Initialize(cfg) ==
    IF cfg.APIKey = "" THEN <<"API", "key", "is", "required">>
    ELSE IF cfg.Model = "" THEN <<"model", "is", "required">>
    ELSE IF cfg.Temperature < 0 \/ cfg.Temperature > 10
    THEN <<"invalid", "temperature:", "must", "be", "between", "0", "and", "1">>
    ELSE IF cfg.MaxTokens < 1
    THEN <<"invalid", "max", "tokens:", "must", "be", "greater", "than", "0">>
    ELSE NilErr

\* the calls made: Generate(ctx, prompt, opts...) on an initialized provider,
\* and Chat(ctx, req) on a provider with or without an API key
Calls_Generate ==
    [op : {"Generate"}, prompt : {<<>>, <<"hi">>}, opts : OptLists,
     limiter : BOOLEAN, apikey : {TRUE}, cfg : {TestConfig}]
Calls_Chat ==
    {c \in [op : {"Chat"}, prompt : {<<"hi">>}, opts : {<<>>},
            limiter : BOOLEAN, apikey : BOOLEAN,
            cfg : {TestConfig, [TestConfig EXCEPT !.APIKey = ""]}] :
        c.apikey = (c.cfg.APIKey # "")}

\* Initialize(ctx) on a provider made with any configuration
Calls_Initialize ==
    {c \in [op : {"Initialize"}, prompt : {<<>>}, opts : {<<>>},
            limiter : BOOLEAN, apikey : BOOLEAN, cfg : Configs] :
        c.apikey = (c.cfg.APIKey # "")}

GenStartState ==
    /\ ctx = "live"
    /\ call \in Calls_Generate \cup Calls_Chat \cup Calls_Initialize
    /\ backend \in [1..MaxRetries -> Transports]
    /\ call.op = "Initialize"
          => backend = [k \in 1..MaxRetries |-> Http(200, 1, <<"hello">>)]
    /\ g = [pc |-> CASE call.op = "Chat" -> "chat"
                    [] call.op = "Initialize" -> "init"
                    [] OTHER -> "start",
            options |-> DefaultOptions, retries |-> 1,
            attempt |-> 0, lastErr |-> NilErr, err |-> NilErr,
            result |-> NoResult, log |-> <<>>, tokens |-> 0, slept |-> 0,
            inits |-> <<>>]

Return(res) == g' = [g EXCEPT !.pc = "done", !.result = res]

GenStart_ValidateFirst ==
    /\ g.pc = "start"
    /\ IF call.prompt = <<>>
       THEN Return(Fail(<<"empty", "prompt">>))
       ELSE IF ValidateOptions(ResolveOptions(call.opts)) # NilErr
       THEN Return(Fail(ValidateOptions(ResolveOptions(call.opts))))
       ELSE g' = [g EXCEPT !.pc = IF call.limiter THEN "wait" ELSE "opts"]
    /\ UNCHANGED <<ctx, call, backend, genOthers>>

GenStart_NoCheck ==
    /\ g.pc = "start"
    /\ g' = [g EXCEPT !.pc = IF call.limiter THEN "wait" ELSE "opts"]
    /\ UNCHANGED <<ctx, call, backend, genOthers>>

\* the empty-prompt check, then the branch on the rate limiter
GenStart ==
    /\ g.pc = "start"
    /\ IF call.prompt = <<>>
       THEN Return(Fail(<<"empty", "prompt">>))
       ELSE g' = [g EXCEPT !.pc = IF call.limiter THEN "wait" ELSE "opts"]
    /\ UNCHANGED <<ctx, call, backend, genOthers>>

GenWait_IgnoreCtx ==
    /\ g.pc = "wait"
    /\ g' = [g EXCEPT !.pc = "opts", !.tokens = @ + 1]
    /\ UNCHANGED <<ctx, call, backend, genOthers>>

\* RateLimiter.Wait(ctx): a token, or the context's error
GenWait ==
    /\ g.pc = "wait"
    /\ IF ctx = "cancelled"
       THEN Return(Fail(Wrap(<<"rate", "limit", "exceeded:">>, CtxErr)))
       ELSE g' = [g EXCEPT !.pc = "opts", !.tokens = @ + 1]
    /\ UNCHANGED <<ctx, call, backend, genOthers>>

\* options applied, the retry budget read, the options validated
GenResolve ==
    /\ g.pc = "opts"
    /\ LET options == ResolveOptions(call.opts)
           verr == ValidateOptions(options)
       IN  IF verr # NilErr
           THEN g' = [g EXCEPT !.pc = "done", !.result = Fail(verr),
                               !.options = options, !.retries = Retries(options)]
           ELSE g' = [g EXCEPT !.pc = "loop", !.options = options,
                               !.retries = Retries(options)]
    /\ UNCHANGED <<ctx, call, backend, genOthers>>

LoopCond_Inclusive == g.attempt <= g.retries

LoopCond_OneLess == g.attempt < g.retries - 1

\* the loop condition: attempt < retries
LoopCond == g.attempt < g.retries

\* the head of the retry loop
GenLoop ==
    /\ g.pc = "loop"
    /\ IF ~LoopCond
       THEN Return(Fail(Wrap(<<"all", "attempts", "failed:">>, g.lastErr)))
       ELSE g' = [g EXCEPT !.pc = IF g.attempt > 0 THEN "sleep" ELSE "request"]
    /\ UNCHANGED <<ctx, call, backend, genOthers>>

GenSleep_CtxBound ==
    /\ g.pc = "sleep"
    /\ IF ctx = "cancelled"
       THEN Return(Fail(CtxErr))
       ELSE g' = [g EXCEPT !.pc = "request", !.slept = @ + g.attempt]
    /\ UNCHANGED <<ctx, call, backend, genOthers>>

GenSleep_Constant ==
    /\ g.pc = "sleep"
    /\ g' = [g EXCEPT !.pc = "request", !.slept = @ + 1]
    /\ UNCHANGED <<ctx, call, backend, genOthers>>

\* time.Sleep(attempt seconds): not bound to the context
GenSleep ==
    /\ g.pc = "sleep"
    /\ g' = [g EXCEPT !.pc = "request", !.slept = @ + g.attempt]
    /\ UNCHANGED <<ctx, call, backend, genOthers>>

LastErr_KeepFirst(err) == IF g.lastErr = NilErr THEN err ELSE g.lastErr

\* lastErr = err
LastErr(err) == err

\* one backend attempt; a success returns at once
GenRequest ==
    /\ g.pc = "request"
    /\ LET r == makeRequest(Transport(Len(g.log) + 1))
       IN  IF r.ok
           THEN g' = [g EXCEPT !.pc = "done", !.result = r, !.log = Append(@, r)]
           ELSE g' = [g EXCEPT !.pc = "classify", !.err = r.body,
                               !.lastErr = LastErr(r.body), !.log = Append(@, r)]
    /\ UNCHANGED <<ctx, call, backend, genOthers>>

GenClassify_NoCtx ==
    /\ g.pc = "classify"
    /\ IF isValidationError(g.err)
       THEN Return(Fail(g.err))
       ELSE g' = [g EXCEPT !.pc = "loop", !.attempt = @ + 1]
    /\ UNCHANGED <<ctx, call, backend, genOthers>>

\* no retry on context cancellation or validation errors
GenClassify ==
    /\ g.pc = "classify"
    /\ IF ctx = "cancelled" \/ isValidationError(g.err)
       THEN Return(Fail(g.err))
       ELSE g' = [g EXCEPT !.pc = "loop", !.attempt = @ + 1]
    /\ UNCHANGED <<ctx, call, backend, genOthers>>

\* Chat: the API key check, then the branch on the rate limiter
ChatStart ==
    /\ g.pc = "chat"
    /\ IF ~call.apikey
       THEN Return(Fail(<<"API", "key", "is", "required">>))
       ELSE g' = [g EXCEPT !.pc = IF call.limiter THEN "chat.wait"
                                                  ELSE "chat.request"]
    /\ UNCHANGED <<ctx, call, backend, genOthers>>

\* Chat: RateLimiter.Wait(ctx)
ChatWait ==
    /\ g.pc = "chat.wait"
    /\ IF ctx = "cancelled"
       THEN Return(Fail(Wrap(<<"rate", "limit", "exceeded:">>, CtxErr)))
       ELSE g' = [g EXCEPT !.pc = "chat.request", !.tokens = @ + 1]
    /\ UNCHANGED <<ctx, call, backend, genOthers>>

\* Chat on what the HTTP client returned: any 200 body is the response
chatRequest(t) ==
    IF t.kind = "neterr"
    THEN Fail(Wrap(<<"failed", "to", "send", "request:">>, t.text))
    ELSE IF t.status # 200
    THEN Fail(<<"request", "failed", "with", "status", StatusWord(t.status)>> \o t.text)
    ELSE Ok(t.text)

\* Chat: its one round trip, and the return
ChatRequest ==
    /\ g.pc = "chat.request"
    /\ LET r == chatRequest(Transport(Len(g.log) + 1))
       IN  g' = [g EXCEPT !.pc = "done", !.result = r, !.log = Append(@, r)]
    /\ UNCHANGED <<ctx, call, backend, genOthers>>

\* one call of Initialize: it reads the configuration and returns
InitializeCall ==
    /\ g.pc = "init"
    /\ LET inits == Append(g.inits, Initialize(call.cfg))
       IN  g' = [g EXCEPT !.inits = inits,
                          !.pc = IF Len(inits) < MaxInits THEN "init" ELSE "done"]
    /\ UNCHANGED <<ctx, call, backend, genOthers>>

\* the caller cancels the context while the call is in progress
GenCancel ==
    /\ g.pc # "done"
    /\ ctx = "live"
    /\ ctx' = "cancelled"
    /\ UNCHANGED <<call, backend, g, genOthers>>

GenNext ==
    \/ GenStart
    \/ GenWait
    \/ GenResolve
    \/ GenLoop
    \/ GenSleep
    \/ GenRequest
    \/ GenClassify
    \/ ChatStart
    \/ ChatWait
    \/ ChatRequest
    \/ InitializeCall
    \/ GenCancel

(***************************************************************************)
(* proxy.Service: the provider registry                                    *)
(***************************************************************************)
None == "none"

\* adapter instances; two of them carry the same name
Adapters == {"mock#1", "mock#2", "openrouter#1", "example#1"}

\* provider.Name()
Name(a) ==
    CASE a = "mock#1" -> "mock"
      [] a = "mock#2" -> "mock"
      [] a = "openrouter#1" -> "openrouter"
      [] a = "example#1" -> "example"

\* the names a caller may ask for
Names == {"mock", "openrouter", "example", "absent"}

\* what the concurrent callers pass in: the adapters the proxy suite and
\* the server register, and the names they look up
Registrants == {"mock#1", "mock#2", "openrouter#1"}
Lookups == {"mock", "openrouter", "absent"}
\* the name the suite sends chat requests to
ChatLookups == {"mock"}

Tasks == 1..NumTasks

NoWriter == 0

NoReturn == [status |-> 0, kind |-> "none", adapter |-> None, err |-> NilErr, names |-> <<>>]
RetNil == [status |-> 0, kind |-> "ok", adapter |-> None, err |-> NilErr, names |-> <<>>]
RetAdapter(a) == [status |-> 0, kind |-> "ok", adapter |-> a, err |-> NilErr, names |-> <<>>]
RetErr(e) == [status |-> 0, kind |-> "err", adapter |-> None, err |-> e, names |-> <<>>]
RetNames(l) == [status |-> 0, kind |-> "ok", adapter |-> None, err |-> NilErr, names |-> l]
\* what Service.Chat and Service.StreamChat hand back when the adapter
\* answered: the response, the channel
RetResp == [status |-> 0, kind |-> "resp", adapter |-> None, err |-> NilErr, names |-> <<>>]
RetChan == [status |-> 0, kind |-> "chan", adapter |-> None, err |-> NilErr, names |-> <<>>]

\* handleListProviders: json.NewEncoder(w).Encode({"providers": names}), the
\* first write of the response, which makes its status 200
handleListProviders(names) ==
    [status |-> 200, kind |-> "http", adapter |-> None, err |-> NilErr,
     names |-> names]

AlreadyRegistered(name) == <<"provider", name, "already", "registered">>
NotFound(name) == <<"provider", name, "not", "found">>

\* NewService: an empty map, an unlocked mutex
RegNew ==
    /\ providers = [n \in Names |-> None]
    /\ mu = [writer |-> NoWriter, readers |-> {}]
    /\ rp = [t \in Tasks |-> [pc |-> "idle", adapter |-> None, name |-> None,
                              via |-> "direct", ret |-> NoReturn]]
    /\ ever = [n \in Names |-> None]

\* a task calls RegisterProvider(a)
RegisterCall(t) ==
    /\ rp[t].pc = "idle"
    /\ \E a \in Registrants :
          rp' = [rp EXCEPT ![t] = [pc |-> "reg.lock", adapter |-> a,
                                   name |-> None, via |-> "direct",
                                   ret |-> NoReturn]]
    /\ UNCHANGED <<providers, mu, ever, regOthers>>

RegisterLock_NoWait(t) ==
    /\ rp[t].pc = "reg.lock"
    /\ mu' = [mu EXCEPT !.writer = t]
    /\ rp' = [rp EXCEPT ![t].pc = "reg.body"]
    /\ UNCHANGED <<providers, ever, regOthers>>

\* s.mu.Lock()
RegisterLock(t) ==
    /\ rp[t].pc = "reg.lock"
    /\ mu.writer = NoWriter /\ mu.readers = {}
    /\ mu' = [mu EXCEPT !.writer = t]
    /\ rp' = [rp EXCEPT ![t].pc = "reg.body"]
    /\ UNCHANGED <<providers, ever, regOthers>>

RegisterBody_Overwrite(t) ==
    /\ rp[t].pc = "reg.body"
    /\ LET a == rp[t].adapter
           name == Name(a)
       IN  /\ providers' = [providers EXCEPT ![name] = a]
           /\ ever' = IF ever[name] = None THEN [ever EXCEPT ![name] = a] ELSE ever
           /\ rp' = [rp EXCEPT ![t].pc = "reg.unlock", ![t].ret = RetNil]
    /\ UNCHANGED <<mu, regOthers>>

\* the duplicate check, under the write lock: the error, or on to the
\* insertion
RegisterBody(t) ==
    /\ rp[t].pc = "reg.body"
    /\ LET name == Name(rp[t].adapter)
       IN  IF providers[name] # None
           THEN rp' = [rp EXCEPT ![t].pc = "reg.unlock",
                                 ![t].ret = RetErr(AlreadyRegistered(name))]
           ELSE rp' = [rp EXCEPT ![t].pc = "reg.insert"]
    /\ UNCHANGED <<providers, ever, mu, regOthers>>

\* s.providers[name] = provider; return nil
RegisterInsert(t) ==
    /\ rp[t].pc = "reg.insert"
    /\ LET a == rp[t].adapter
           name == Name(a)
       IN  /\ providers' = [providers EXCEPT ![name] = a]
           /\ ever' = IF ever[name] = None
                      THEN [ever EXCEPT ![name] = a] ELSE ever
           /\ rp' = [rp EXCEPT ![t].pc = "reg.unlock", ![t].ret = RetNil]
    /\ UNCHANGED <<mu, regOthers>>

\* defer s.mu.Unlock(), and the return to the caller
RegisterUnlock(t) ==
    /\ rp[t].pc = "reg.unlock"
    /\ mu' = [mu EXCEPT !.writer = NoWriter]
    /\ rp' = [rp EXCEPT ![t].pc = "idle"]
    /\ UNCHANGED <<providers, ever, regOthers>>

\* a task calls GetProvider(name), itself or as the first statement of
\* Service.Chat or Service.StreamChat
GetCall(t) ==
    /\ rp[t].pc = "idle"
    /\ \E n \in Lookups, via \in {"direct", "Chat", "StreamChat"} :
          /\ via # "direct" => n \in ChatLookups
          /\ rp' = [rp EXCEPT ![t] = [pc |-> "get.rlock", adapter |-> None,
                                      name |-> n, via |-> via,
                                      ret |-> NoReturn]]
    /\ UNCHANGED <<providers, mu, ever, regOthers>>

\* s.mu.RLock()
GetRLock(t) ==
    /\ rp[t].pc = "get.rlock"
    /\ mu.writer = NoWriter
    /\ mu' = [mu EXCEPT !.readers = @ \cup {t}]
    /\ rp' = [rp EXCEPT ![t].pc = "get.body"]
    /\ UNCHANGED <<providers, ever, regOthers>>

GetBody_NoCheck(t) ==
    /\ rp[t].pc = "get.body"
    /\ rp' = [rp EXCEPT ![t].pc = "get.runlock",
                        ![t].ret = RetAdapter(providers[rp[t].name])]
    /\ UNCHANGED <<providers, mu, ever, regOthers>>

\* the map lookup, under the read lock
GetBody(t) ==
    /\ rp[t].pc = "get.body"
    /\ LET name == rp[t].name
       IN  IF providers[name] = None
           THEN rp' = [rp EXCEPT ![t].pc = "get.runlock",
                                 ![t].ret = RetErr(NotFound(name))]
           ELSE rp' = [rp EXCEPT ![t].pc = "get.runlock",
                                 ![t].ret = RetAdapter(providers[name])]
    /\ UNCHANGED <<providers, mu, ever, regOthers>>

GetRUnlock_KeepLock(t) ==
    /\ rp[t].pc = "get.runlock"
    /\ mu' = IF rp[t].via = "direct"
             THEN [mu EXCEPT !.readers = @ \ {t}] ELSE mu
    /\ rp' = [rp EXCEPT ![t].pc = IF rp[t].via = "direct"
                                  THEN "idle" ELSE "svc.got"]
    /\ UNCHANGED <<providers, ever, regOthers>>

\* defer s.mu.RUnlock(), and the return to the caller: the task itself, or
\* Service.Chat / Service.StreamChat
GetRUnlock(t) ==
    /\ rp[t].pc = "get.runlock"
    /\ mu' = [mu EXCEPT !.readers = @ \ {t}]
    /\ rp' = [rp EXCEPT ![t].pc = IF rp[t].via = "direct"
                                  THEN "idle" ELSE "svc.got"]
    /\ UNCHANGED <<providers, ever, regOthers>>

FailedToGet(e) == Wrap(<<"failed", "to", "get", "provider:">>, e)
BackendFailed(via, name, e) ==
    Wrap(IF via = "Chat" THEN <<"provider", name, "chat", "failed:">>
         ELSE <<"provider", name, "stream", "chat", "failed:">>, e)

\* Service.Chat / Service.StreamChat after s.GetProvider: the wrapped lookup
\* error, or the call of the adapter's Chat / StreamChat
ServiceDispatch(t) ==
    /\ rp[t].pc = "svc.got"
    /\ IF rp[t].ret.kind = "err"
       THEN rp' = [rp EXCEPT ![t].pc = "idle",
                             ![t].ret = RetErr(FailedToGet(@.err))]
       ELSE rp' = [rp EXCEPT ![t].pc = "svc.backend"]
    /\ UNCHANGED <<providers, mu, ever, regOthers>>

\* the adapter's Chat / StreamChat comes back from the network, after any
\* time: its answer, or its error wrapped
ServiceReturn(t) ==
    /\ rp[t].pc = "svc.backend"
    /\ \E ok \in BOOLEAN :
          rp' = [rp EXCEPT ![t].pc = "idle",
                           ![t].ret =
                               IF ok
                               THEN (IF rp[t].via = "Chat" THEN RetResp ELSE RetChan)
                               ELSE RetErr(BackendFailed(rp[t].via, rp[t].name,
                                                         <<"connection", "refused">>))]
    /\ UNCHANGED <<providers, mu, ever, regOthers>>

\* a task calls ListProviders(), itself or as the handler of
\* GET /v1/providers
ListCall(t) ==
    /\ rp[t].pc = "idle"
    /\ \E via \in {"direct", "http"} :
          rp' = [rp EXCEPT ![t] = [pc |-> "list.rlock", adapter |-> None,
                                   name |-> None, via |-> via,
                                   ret |-> NoReturn]]
    /\ UNCHANGED <<providers, mu, ever, regOthers>>

\* s.mu.RLock()
ListRLock(t) ==
    /\ rp[t].pc = "list.rlock"
    /\ mu.writer = NoWriter
    /\ mu' = [mu EXCEPT !.readers = @ \cup {t}]
    /\ rp' = [rp EXCEPT ![t].pc = "list.body"]
    /\ UNCHANGED <<providers, ever, regOthers>>

KeyOrders_AllNames ==
    {l \in [1..Cardinality(Names) -> Names] :
        \A i, j \in 1..Cardinality(Names) : i # j => l[i] # l[j]}

\* the orders in which a range over the map may visit its keys
KeyOrders ==
    LET keys == {n \in Names : providers[n] # None}
    IN  {l \in [1..Cardinality(keys) -> keys] :
            \A i, j \in 1..Cardinality(keys) : i # j => l[i] # l[j]}

\* for name := range s.providers { append }: the keys, in map order
ListBody(t) ==
    /\ rp[t].pc = "list.body"
    /\ \E l \in KeyOrders :
          rp' = [rp EXCEPT ![t].pc = "list.runlock", ![t].ret = RetNames(l)]
    /\ UNCHANGED <<providers, mu, ever, regOthers>>

\* defer s.mu.RUnlock(), and the return to the caller; the handler then
\* encodes the names it was given
ListRUnlock(t) ==
    /\ rp[t].pc = "list.runlock"
    /\ mu' = [mu EXCEPT !.readers = @ \ {t}]
    /\ rp' = [rp EXCEPT ![t].pc = "idle",
                        ![t].ret = IF rp[t].via = "http"
                                   THEN handleListProviders(@.names) ELSE @]
    /\ UNCHANGED <<providers, ever, regOthers>>

RegNext ==
    \E t \in Tasks :
        \/ RegisterCall(t)
        \/ RegisterLock(t)
        \/ RegisterBody(t)
        \/ RegisterInsert(t)
        \/ RegisterUnlock(t)
        \/ GetCall(t)
        \/ GetRLock(t)
        \/ GetBody(t)
        \/ GetRUnlock(t)
        \/ ServiceDispatch(t)
        \/ ServiceReturn(t)
        \/ ListCall(t)
        \/ ListRLock(t)
        \/ ListBody(t)
        \/ ListRUnlock(t)

(***************************************************************************)
(* The streaming path: the adapter's producer task, the forwarding task of *)
(* Service.StreamChat, and the consumer (the HTTP handler, or a caller     *)
(* ranging over the channel itself)                                        *)
(***************************************************************************)
\* make(chan T): unbuffered. slot holds the value a blocked sender offers
\* until a receiver takes it; closes counts the close calls; bad records a
\* send on, or a close of, a closed channel (a panic in Go)
NewChan == [slot |-> <<>>, closed |-> FALSE, closes |-> 0, bad |-> FALSE]

Close_Skip(ch) == ch

\* close(ch)
Close(ch) ==
    IF ch.closed THEN [ch EXCEPT !.closes = @ + 1, !.bad = TRUE]
    ELSE [ch EXCEPT !.closed = TRUE, !.closes = @ + 1]

\* ch <- v, up to the point where the sender blocks
Offer(ch, v) ==
    IF ch.closed THEN [ch EXCEPT !.bad = TRUE] ELSE [ch EXCEPT !.slot = <<v>>]

\* the receiver's side of the handoff
Take(ch) == [ch EXCEPT !.slot = <<>>]

\* a receive can complete / the sender's send has completed
Offered(ch) == ch.slot # <<>>
Drained(ch) == ch.slot = <<>>

\* strings.Join(words, " ") on token sequences
RECURSIVE Join(_)
Join(words) ==
    IF words = <<>> THEN <<>>
    ELSE IF Len(words) = 1 THEN Head(words)
    ELSE Head(words) \o <<" ">> \o Join(Tail(words))

\* strings.Split(s, " "): the words between the separators, at least one
RECURSIVE Split(_)
Split(s) ==
    IF \A i \in 1..Len(s) : s[i] # " " THEN <<s>>
    ELSE LET i == CHOOSE j \in 1..Len(s) :
                      s[j] = " " /\ \A k \in 1..(j - 1) : s[k] # " "
         IN  <<SubSeq(s, 1, i - 1)>> \o Split(SubSeq(s, i + 1, Len(s)))

\* a ChatResponse / types.Response; seq is the index a chunk's ID ends with
Response(id, seq, content, finish) ==
    [id |-> id, seq |-> seq, content |-> content, finish |-> finish]

\* the routes of a stream: through Service.StreamChat for a registered
\* adapter, or AnthropicProvider.Stream called directly
StreamProviders == Names \cup {"anthropic"}
ViaService == sreq.provider # "anthropic"

Lookup_Default(name) ==
    IF name \in DOMAIN providers /\ providers[name] # None
    THEN providers[name] ELSE "mock#1"

\* GetProvider's read of the map: None when the name has no entry
Lookup(name) == IF name \in DOMAIN providers THEN providers[name] ELSE None

\* which StreamChat runs: that of the adapter found in the registry
Kind == IF ViaService THEN Name(Lookup(sreq.provider)) ELSE "anthropic"

\* the channel the consumer ranges over
ConsChan == IF ViaService THEN chN ELSE chA

MockChunk_NoSpace(words, i) ==
    Response("mock-response-id", <<i>>, words[i + 1],
             IF i = Len(words) - 1 THEN "stop" ELSE "")

\* MockProvider's chunk for word i (0-based) of n
MockChunk(words, i) ==
    Response("mock-response-id", <<i>>, words[i + 1] \o <<" ">>,
             IF i = Len(words) - 1 THEN "stop" ELSE "")

\* the response of Chat, or of the mock's handler
ChatResponse ==
    Response(IF Kind = "mock" THEN "mock-response-id" ELSE "response", <<>>,
             up.content, "stop")

ChatFails_Never == FALSE

\* Chat (OpenRouterProvider, ExampleProvider) or the mock's handler fails:
\* on a cancelled context, or when the backend does
ChatFails ==
    CASE Kind = "openrouter" -> ctx = "cancelled" \/ ~up.ok
      [] Kind = "example" -> ctx = "cancelled"
      [] Kind = "mock" -> ~up.ok
      [] OTHER -> ctx = "cancelled" \/ ~up.ok

\* the events of the Anthropic completion stream: one per word, the last Done
Events == Split(up.content)

ProducerReturn ==
    /\ pr' = [pr EXCEPT !.pc = "exited"]
    /\ chA' = Close(chA)

\* the first statements of the producer goroutine: the backend call
ProdRun ==
    /\ pr.pc = "run"
    /\ IF ChatFails
       THEN ProducerReturn
       ELSE IF Kind \in {"openrouter", "example"}
       THEN /\ pr' = [pr EXCEPT !.pc = "select"]
            /\ chA' = Offer(chA, ChatResponse)
       ELSE /\ pr' = [pr EXCEPT !.pc = "loop", !.i = 0]
            /\ chA' = chA
    /\ UNCHANGED <<ctx, sreq, up, fw, chN, co, sent, strOthers>>

\* select: case <-ctx.Done(): return
ProdSelectDone ==
    /\ pr.pc = "select"
    /\ ctx = "cancelled"
    /\ Offered(chA)
    /\ pr' = [pr EXCEPT !.pc = "exited"]
    /\ chA' = Close(Take(chA))
    /\ UNCHANGED <<ctx, sreq, up, fw, chN, co, sent, strOthers>>

\* select: case responses <- resp, then the end of the goroutine
ProdSelectSent ==
    /\ pr.pc = "select"
    /\ Drained(chA)
    /\ ProducerReturn
    /\ UNCHANGED <<ctx, sreq, up, fw, chN, co, sent, strOthers>>

\* the head of the mock's and the Anthropic adapter's loop: the non-blocking
\* check of ctx.Done(), then the next chunk sent with a plain send
ProdLoop ==
    /\ pr.pc = "loop"
    /\ IF Kind = "mock"
       THEN LET words == Split(up.content)
            IN  IF pr.i >= Len(words) \/ ctx = "cancelled"
                THEN ProducerReturn
                ELSE /\ pr' = [pr EXCEPT !.pc = "send"]
                     /\ chA' = Offer(chA, MockChunk(words, pr.i))
       ELSE IF ctx = "cancelled" \/ pr.i >= Len(Events) \/ pr.i + 1 = up.failAt
            THEN ProducerReturn
            ELSE /\ pr' = [pr EXCEPT !.pc = "send"]
                 /\ chA' = Offer(chA, Response("", <<>>, Events[pr.i + 1], ""))
    /\ UNCHANGED <<ctx, sreq, up, fw, chN, co, sent, strOthers>>

\* the plain send has completed
ProdSent ==
    /\ pr.pc = "send"
    /\ Drained(chA)
    /\ IF Kind = "anthropic" /\ pr.i + 1 = Len(Events)
       THEN ProducerReturn
       ELSE /\ pr' = [pr EXCEPT !.pc = "loop", !.i = @ + 1]
            /\ chA' = chA
    /\ UNCHANGED <<ctx, sreq, up, fw, chN, co, sent, strOthers>>

FwdRecv_Skip ==
    /\ fw.pc = "recv"
    /\ Offered(chA)
    /\ chA' = Take(chA)
    /\ sent' = Append(sent, chA.slot[1])
    /\ IF Len(sent) = 0
       THEN UNCHANGED <<fw, chN>>
       ELSE /\ fw' = [fw EXCEPT !.pc = "send"]
            /\ chN' = Offer(chN, chA.slot[1])
    /\ UNCHANGED <<ctx, sreq, up, pr, co, strOthers>>

\* for resp := range respChan { normalizedChan <- resp: the receive
FwdRecv ==
    /\ fw.pc = "recv"
    /\ Offered(chA)
    /\ chA' = Take(chA)
    /\ sent' = Append(sent, chA.slot[1])
    /\ fw' = [fw EXCEPT !.pc = "send"]
    /\ chN' = Offer(chN, chA.slot[1])
    /\ UNCHANGED <<ctx, sreq, up, pr, co, strOthers>>

FwdSent_Buffered ==
    /\ fw.pc = "send"
    /\ fw' = [fw EXCEPT !.pc = "recv"]
    /\ UNCHANGED <<ctx, sreq, up, pr, chA, chN, co, sent, strOthers>>

\* the forwarder's send has completed
FwdSent ==
    /\ fw.pc = "send"
    /\ Drained(chN)
    /\ fw' = [fw EXCEPT !.pc = "recv"]
    /\ UNCHANGED <<ctx, sreq, up, pr, chA, chN, co, sent, strOthers>>

\* respChan is closed: the range ends and defer close(normalizedChan) runs
FwdClosed ==
    /\ fw.pc = "recv"
    /\ chA.closed /\ Drained(chA)
    /\ fw' = [fw EXCEPT !.pc = "exited"]
    /\ chN' = Close(chN)
    /\ UNCHANGED <<ctx, sreq, up, pr, chA, co, sent, strOthers>>

\* json.Marshal of a response
Marshal(r) ==
    [ok |-> TRUE,
     data |-> <<"{", "id:", r.id>> \o [k \in 1..Len(r.seq) |-> ToString(r.seq[k])]
              \o <<"content:">> \o r.content \o <<"finish_reason:", r.finish, "}">>]

\* one server-sent event
Frame(data) == [prefix |-> "data: ", data |-> data, suffix |-> "\n\n"]

\* provider := r.Header.Get("X-Provider"), or the query parameter when empty
Selector(header, query) == IF header = "" THEN query ELSE header

HandleDecode_NoReturn ==
    /\ sreq.consumer = "handler"
    /\ co.pc = "start"
    /\ IF sreq.body = "malformed"
       THEN co' = [co EXCEPT !.pc = "selector", !.status = 400,
                             !.body = <<"Invalid", "request", "body">>]
       ELSE co' = [co EXCEPT !.pc = "selector"]
    /\ UNCHANGED <<ctx, sreq, up, pr, fw, chA, chN, sent, strOthers>>

HandleDecode_NoCheck ==
    /\ sreq.consumer = "handler"
    /\ co.pc = "start"
    /\ co' = [co EXCEPT !.pc = "selector"]
    /\ UNCHANGED <<ctx, sreq, up, pr, fw, chA, chN, sent, strOthers>>

\* handleChat: json.NewDecoder(r.Body).Decode(&req)
HandleDecode ==
    /\ sreq.consumer = "handler"
    /\ co.pc = "start"
    /\ IF sreq.body = "malformed"
       THEN co' = [co EXCEPT !.pc = "done", !.status = 400,
                             !.body = <<"Invalid", "request", "body">>]
       ELSE co' = [co EXCEPT !.pc = "selector"]
    /\ UNCHANGED <<ctx, sreq, up, pr, fw, chA, chN, sent, strOthers>>

HandleSelector_NoCheck ==
    /\ co.pc = "selector"
    /\ co' = [co EXCEPT !.pc = "route"]
    /\ UNCHANGED <<ctx, sreq, up, pr, fw, chA, chN, sent, strOthers>>

\* handleChat: the provider from the header or the query parameter
HandleSelector ==
    /\ co.pc = "selector"
    /\ IF Selector(sreq.header, sreq.query) = ""
       THEN co' = [co EXCEPT !.pc = "done", !.status = 400,
                             !.body = <<"Provider", "not", "specified">>]
       ELSE co' = [co EXCEPT !.pc = "route"]
    /\ UNCHANGED <<ctx, sreq, up, pr, fw, chA, chN, sent, strOthers>>

\* the Stream field of the decoded request: false when the body has no
\* "stream" member
DecodeStream(field) == field = "true"

StreamRequested_Always == TRUE

\* handleChat: if req.Stream
StreamRequested == sreq.stream

NormalizeResponse_DropFinish(resp) == [resp EXCEPT !.finish = ""]

\* Service.Chat's response normalization: there is none, the adapter's
\* response is returned as it is
NormalizeResponse(resp) == resp

\* handleChat with stream false: Service.Chat (GetProvider, the adapter's
\* Chat), then the error or the encoded response
HandleChat ==
    /\ co.pc = "route"
    /\ ~StreamRequested
    /\ IF Lookup(sreq.provider) = None
       THEN co' = [co EXCEPT !.pc = "done", !.status = 500,
                             !.lookups = @ + 1, !.paths = @ \cup {"Chat"},
                             !.body = Wrap(<<"failed", "to", "get", "provider:">>,
                                           NotFound(sreq.provider))]
       ELSE IF ChatFails
       THEN co' = [co EXCEPT !.pc = "done", !.status = 500,
                             !.lookups = @ + 1, !.calls = @ + 1,
                             !.paths = @ \cup {"Chat"},
                             !.body = <<"provider", sreq.provider, "chat", "failed:">>]
       ELSE co' = [co EXCEPT !.pc = "done", !.status = 200,
                             !.lookups = @ + 1, !.calls = @ + 1,
                             !.paths = @ \cup {"Chat"},
                             !.body = Marshal(NormalizeResponse(ChatResponse)).data]
    /\ UNCHANGED <<ctx, sreq, up, pr, fw, chA, chN, sent, strOthers>>

\* the consumer starts the stream: handleStreamChat's call of, or a caller's
\* call of, Service.StreamChat (GetProvider, the adapter's StreamChat, the
\* forwarder); or a caller's call of AnthropicProvider.Stream
ConsStart ==
    /\ \/ sreq.consumer = "caller" /\ co.pc = "start"
       \/ sreq.consumer = "handler" /\ co.pc = "route" /\ StreamRequested
    /\ IF ViaService /\ Lookup(sreq.provider) = None
       THEN /\ co' = [co EXCEPT !.pc = "done", !.status = 500,
                                !.lookups = @ + 1,
                                !.paths = @ \cup {"StreamChat"},
                                !.body = Wrap(<<"failed", "to", "get", "provider:">>,
                                              NotFound(sreq.provider))]
            /\ UNCHANGED <<pr, fw>>
       ELSE /\ co' = [co EXCEPT !.pc = "recv", !.calls = @ + 1,
                                !.lookups = IF ViaService THEN @ + 1 ELSE @,
                                !.paths = @ \cup {IF ViaService THEN "StreamChat"
                                                  ELSE "Stream"}]
            /\ pr' = [pr EXCEPT !.pc = "run"]
            /\ fw' = IF ViaService THEN [fw EXCEPT !.pc = "recv"] ELSE fw
    /\ UNCHANGED <<ctx, sreq, up, chA, chN, sent, strOthers>>

\* for resp := range respChan: the receive
ConsRecv ==
    /\ co.pc = "recv"
    /\ Offered(ConsChan)
    /\ co' = [co EXCEPT !.pc = "write", !.resp = ConsChan.slot]
    /\ IF ViaService
       THEN chN' = Take(chN) /\ UNCHANGED <<chA, sent>>
       ELSE chA' = Take(chA) /\ sent' = Append(sent, chA.slot[1]) /\ chN' = chN
    /\ UNCHANGED <<ctx, sreq, up, pr, fw, strOthers>>

\* the loop body: the handler marshals the response and writes one frame
\* (a response that cannot be marshalled is skipped); a caller keeps it
ConsWrite ==
    /\ co.pc = "write"
    /\ LET m == Marshal(co.resp[1])
       IN  co' = [co EXCEPT !.pc = "recv", !.resp = <<>>, !.status = 200,
                     !.frames = IF m.ok THEN Append(@, Frame(m.data)) ELSE @]
    /\ UNCHANGED <<ctx, sreq, up, pr, fw, chA, chN, sent, strOthers>>

ConsClosed_Early ==
    /\ co.pc = "recv"
    /\ Drained(ConsChan)
    /\ co' = [co EXCEPT !.pc = "done", !.status = 200]
    /\ UNCHANGED <<ctx, sreq, up, pr, fw, chA, chN, sent, strOthers>>

\* the channel is closed: the range ends and the consumer returns
ConsClosed ==
    /\ co.pc = "recv"
    /\ ConsChan.closed /\ Drained(ConsChan)
    /\ co' = [co EXCEPT !.pc = "done", !.status = 200]
    /\ UNCHANGED <<ctx, sreq, up, pr, fw, chA, chN, sent, strOthers>>

\* a caller that ranges over the channel itself stops receiving
CallerStop ==
    /\ sreq.consumer = "caller"
    /\ co.pc = "recv"
    /\ co' = [co EXCEPT !.pc = "stopped"]
    /\ UNCHANGED <<ctx, sreq, up, pr, fw, chA, chN, sent, strOthers>>

\* the request context is cancelled (the client disconnects, a timeout)
StrCancel ==
    /\ ctx = "live"
    /\ co.pc \notin {"done"}
    /\ ctx' = "cancelled"
    /\ UNCHANGED <<sreq, up, pr, fw, chA, chN, co, sent, strOthers>>

StrNext ==
    \/ ProdRun
    \/ ProdSelectDone
    \/ ProdSelectSent
    \/ ProdLoop
    \/ ProdSent
    \/ FwdRecv
    \/ FwdSent
    \/ FwdClosed
    \/ HandleDecode
    \/ HandleSelector
    \/ HandleChat
    \/ ConsStart
    \/ ConsRecv
    \/ ConsWrite
    \/ ConsClosed
    \/ CallerStop
    \/ StrCancel

\* the words a backend may answer with
Words == {<<"Hello!">>, <<"mock">>}

Contents ==
    UNION {{Join(ws) : ws \in [1..n -> Words]} : n \in 1..MaxWords}

\* no stream has been started
StrNew ==
    /\ pr = [pc |-> "unborn", i |-> 0]
    /\ fw = [pc |-> "unborn"]
    /\ chA = NewChan
    /\ chN = NewChan
    /\ co = [pc |-> "start", resp |-> <<>>, frames |-> <<>>, status |-> 0,
             body |-> <<>>, lookups |-> 0, calls |-> 0, paths |-> {}]
    /\ sent = <<>>

\* the values of the X-Provider header and of the provider query parameter
Selectors == {""} \cup Names

\* POST /v1/chat/completions: any header, query parameter and body, the
\* "stream" member of the body absent, true or false
HandlerRequests ==
    {r \in [header : Selectors, query : Selectors,
            provider : Selectors, body : {"json", "malformed"},
            streamField : {"absent", "true", "false"},
            stream : BOOLEAN, consumer : {"handler"}] :
        /\ r.provider = Selector(r.header, r.query)
        /\ r.stream = DecodeStream(r.streamField)}

\* StreamChat, or Stream, called by a program that ranges over the channel
CallerRequests ==
    [header : {""}, query : {""}, provider : StreamProviders,
     body : {"json"}, streamField : {"true"}, stream : {TRUE},
     consumer : {"caller"}]

StrStartState ==
    /\ ctx = "live"
    /\ sreq \in HandlerRequests \cup CallerRequests
    /\ up \in {u \in [ok : BOOLEAN, content : Contents, failAt : 0..MaxWords] :
                  /\ sreq.provider # "anthropic" => u.failAt = 0
                  /\ sreq.provider = "example" => u.ok}
    /\ StrNew

\* no stream is part of the behaviours of Generate and of the registry
StrIdle ==
    /\ sreq = [header |-> "absent", query |-> "", provider |-> "absent",
               body |-> "json", streamField |-> "true", stream |-> TRUE,
               consumer |-> "handler"]
    /\ up = [ok |-> TRUE, content |-> <<"Hello!">>, failAt |-> 0]
    /\ StrNew

\* the registry as the gateway has it once the adapters are registered
RegLoaded ==
    /\ providers = [n \in Names |->
                      IF \E a \in Adapters : Name(a) = n
                      THEN CHOOSE a \in Adapters : Name(a) = n /\ a # "mock#2"
                      ELSE None]
    /\ mu = [writer |-> NoWriter, readers |-> {}]
    /\ rp = [t \in Tasks |-> [pc |-> "idle", adapter |-> None, name |-> None,
                              via |-> "direct", ret |-> NoReturn]]
    /\ ever = providers

(***************************************************************************)
(* Streaming requests running at the same time, each through               *)
(* Service.StreamChat to the mock adapter                                  *)
(***************************************************************************)
\* the requests that stream at the same time
Streams == {1, 2}

\* make(chan T): a new channel, at the next id of the heap
MakeChan(h) == Append(h, NewChan)

\* a chunk, with the request whose producer made it
Tagged(r, resp) == [from |-> r, resp |-> resp]

NewStream(content) ==
    [ctx |-> "live", words |-> Split(content),
     pr |-> [pc |-> "unborn", i |-> 0], fw |-> "unborn", co |-> "start",
     a |-> 0, n |-> 0, got |-> <<>>]

\* no request has called StreamChat yet
DualNew ==
    /\ heap = <<>>
    /\ rs \in [Streams -> {NewStream(c) : c \in Contents}]

\* no concurrent streams are part of the behaviours of the other models
DualIdle ==
    /\ heap = <<>>
    /\ rs = [r \in Streams |-> [NewStream(<<"Hello!">>) EXCEPT !.co = "done"]]

DualStart_SharedChan(r) ==
    /\ rs[r].co = "start"
    /\ LET h1 == IF heap = <<>> THEN MakeChan(heap) ELSE heap
           h2 == MakeChan(h1)
       IN  /\ heap' = h2
           /\ rs' = [rs EXCEPT ![r].a = 1, ![r].n = Len(h2),
                               ![r].pr = [pc |-> "loop", i |-> 0],
                               ![r].fw = "recv", ![r].co = "recv"]
    /\ UNCHANGED dualOthers

\* Service.StreamChat: the adapter's StreamChat makes responses and starts
\* its producer; normalizedChan is made and the forwarder started; the
\* consumer gets normalizedChan
DualStart(r) ==
    /\ rs[r].co = "start"
    /\ LET h1 == MakeChan(heap)
           h2 == MakeChan(h1)
       IN  /\ heap' = h2
           /\ rs' = [rs EXCEPT ![r].a = Len(h1), ![r].n = Len(h2),
                               ![r].pr = [pc |-> "loop", i |-> 0],
                               ![r].fw = "recv", ![r].co = "recv"]
    /\ UNCHANGED dualOthers

\* the head of the mock producer's loop: the range ends or the context is
\* done and defer close(responses) runs, or the next chunk is sent
DualProdLoop(r) ==
    /\ rs[r].pr.pc = "loop"
    /\ LET s == rs[r]
       IN  IF s.pr.i >= Len(s.words) \/ s.ctx = "cancelled"
           THEN /\ rs' = [rs EXCEPT ![r].pr.pc = "exited"]
                /\ heap' = [heap EXCEPT ![s.a] = Close(@)]
           ELSE /\ rs' = [rs EXCEPT ![r].pr.pc = "send"]
                /\ heap' = [heap EXCEPT ![s.a] =
                               Offer(@, Tagged(r, MockChunk(s.words, s.pr.i)))]
    /\ UNCHANGED dualOthers

\* responses <- streamResp has completed
DualProdSent(r) ==
    /\ rs[r].pr.pc = "send"
    /\ Drained(heap[rs[r].a])
    /\ rs' = [rs EXCEPT ![r].pr = [pc |-> "loop", i |-> @.i + 1]]
    /\ UNCHANGED <<heap, dualOthers>>

\* the forwarder: for resp := range respChan { normalizedChan <- resp
DualFwdRecv(r) ==
    /\ rs[r].fw = "recv"
    /\ Offered(heap[rs[r].a])
    /\ LET s == rs[r]
           h1 == [heap EXCEPT ![s.a] = Take(@)]
       IN  heap' = [h1 EXCEPT ![s.n] = Offer(@, heap[s.a].slot[1])]
    /\ rs' = [rs EXCEPT ![r].fw = "send"]
    /\ UNCHANGED dualOthers

\* the forwarder's send has completed
DualFwdSent(r) ==
    /\ rs[r].fw = "send"
    /\ Drained(heap[rs[r].n])
    /\ rs' = [rs EXCEPT ![r].fw = "recv"]
    /\ UNCHANGED <<heap, dualOthers>>

\* respChan is closed: the range ends and defer close(normalizedChan) runs
DualFwdClosed(r) ==
    /\ rs[r].fw = "recv"
    /\ heap[rs[r].a].closed /\ Drained(heap[rs[r].a])
    /\ rs' = [rs EXCEPT ![r].fw = "exited"]
    /\ heap' = [heap EXCEPT ![rs[r].n] = Close(@)]
    /\ UNCHANGED dualOthers

\* the consumer's range over its channel: one receive
DualConsRecv(r) ==
    /\ rs[r].co = "recv"
    /\ Offered(heap[rs[r].n])
    /\ rs' = [rs EXCEPT ![r].got = Append(@, heap[rs[r].n].slot[1])]
    /\ heap' = [heap EXCEPT ![rs[r].n] = Take(@)]
    /\ UNCHANGED dualOthers

\* the consumer's channel is closed: its range ends
DualConsClosed(r) ==
    /\ rs[r].co = "recv"
    /\ heap[rs[r].n].closed /\ Drained(heap[rs[r].n])
    /\ rs' = [rs EXCEPT ![r].co = "done"]
    /\ UNCHANGED <<heap, dualOthers>>

\* the context of one request is cancelled
DualCancel(r) ==
    /\ rs[r].ctx = "live"
    /\ rs[r].co # "done"
    /\ rs' = [rs EXCEPT ![r].ctx = "cancelled"]
    /\ UNCHANGED <<heap, dualOthers>>

DualNext ==
    \E r \in Streams :
        \/ DualStart(r)
        \/ DualProdLoop(r)
        \/ DualProdSent(r)
        \/ DualFwdRecv(r)
        \/ DualFwdSent(r)
        \/ DualFwdClosed(r)
        \/ DualConsRecv(r)
        \/ DualConsClosed(r)
        \/ DualCancel(r)

(***************************************************************************)
(* Specifications: one Generate call; one stream; the registry under       *)
(* concurrent callers                                                      *)
(***************************************************************************)
\* no Generate call is part of the behaviours of a stream or of the registry
GenIdle ==
    /\ ctx = "live"
    /\ call = [op |-> "Generate", prompt |-> <<>>, opts |-> <<>>,
               limiter |-> FALSE, apikey |-> TRUE, cfg |-> TestConfig]
    /\ backend = [k \in 1..MaxRetries |-> Http(200, 1, <<"hello">>)]
    /\ g = [pc |-> "done", options |-> DefaultOptions, retries |-> 1,
            attempt |-> 0, lastErr |-> NilErr, err |-> NilErr,
            result |-> NoResult, log |-> <<>>, tokens |-> 0, slept |-> 0,
            inits |-> <<>>]

GenInit == GenStartState /\ RegNew /\ StrIdle /\ DualIdle

SpecGen == GenInit /\ [][GenNext]_vars

RegInit == RegNew /\ GenIdle /\ StrIdle /\ DualIdle

SpecReg == RegInit /\ [][RegNext]_vars

StrInit == StrStartState /\ RegLoaded /\ GenIdle /\ DualIdle

SpecStr == StrInit /\ [][StrNext]_vars

DualInit == DualNew /\ GenIdle /\ RegLoaded /\ StrIdle

SpecDual == DualInit /\ [][DualNext]_vars

\* every task is scheduled: a goroutine that can take a step takes it.
\* Cancellation, and a caller's decision to stop, are not obliged to happen
StrFairness ==
    /\ WF_vars(ProdRun) /\ WF_vars(ProdSelectDone) /\ WF_vars(ProdSelectSent)
    /\ WF_vars(ProdLoop) /\ WF_vars(ProdSent)
    /\ WF_vars(FwdRecv) /\ WF_vars(FwdSent) /\ WF_vars(FwdClosed)
    /\ WF_vars(ConsStart) /\ WF_vars(ConsRecv) /\ WF_vars(ConsWrite)
    /\ WF_vars(ConsClosed)
    /\ WF_vars(HandleDecode) /\ WF_vars(HandleSelector) /\ WF_vars(HandleChat)

FairSpecStr == StrInit /\ [][StrNext]_vars /\ StrFairness

(***************************************************************************)
(* Claims about Generate's retry loop                                      *)
(***************************************************************************)
\* the number of backend attempts the call has made
Calls == Len(g.log)

\* an error of the validation class: its text says "invalid" or "empty prompt"
IsValidationClass(err) ==
    Contains(err, <<"invalid">>) \/ Contains(err, <<"empty", "prompt">>)

\* the backend's k-th answer is a failure that is not of the validation class
TransientAnswer(k) ==
    ~makeRequest(backend[k]).ok /\ ~IsValidationClass(makeRequest(backend[k]).body)

\* a Generate call that got past the prompt check and the option validation
ReachedLoop ==
    /\ call.op = "Generate"
    /\ call.prompt # <<>> /\ ValidateOptions(ResolveOptions(call.opts)) = NilErr

\* C1: with a retry budget N >= 1, when the backend fails the first N-1
\* attempts transiently and answers the N-th, and the context stays live,
\* Generate returns the N-th attempt's response after exactly N attempts.
C1_RetryUntilSuccess ==
    ( /\ g.pc = "done" /\ ctx = "live" /\ ReachedLoop
      /\ g.retries >= 1
      /\ \A k \in 1..(g.retries - 1) : TransientAnswer(k)
      /\ makeRequest(backend[g.retries]).ok )
    => /\ g.result = makeRequest(backend[g.retries])
       /\ Calls = g.retries

C1_Witness ==
    /\ g.pc = "done" /\ ctx = "live"
    /\ g.retries = MaxRetries /\ Calls = MaxRetries
    /\ g.result.ok /\ ~g.log[1].ok

\* C2: when the first attempt fails with a validation-class error, Generate
\* has made exactly one attempt whatever the budget, and returns that error
\* itself, not wrapped.
C2_ValidationNotRetried ==
    ( /\ g.pc = "done" /\ Calls >= 1
      /\ ~g.log[1].ok /\ IsValidationClass(g.log[1].body) )
    => /\ Calls = 1
       /\ g.result = Fail(g.log[1].body)

C2_Witness ==
    /\ g.pc = "done" /\ g.retries = MaxRetries /\ Calls = 1
    /\ ~g.log[1].ok /\ IsValidationClass(g.log[1].body)
    /\ g.result = Fail(g.log[1].body)

\* C3: when all N >= 1 attempts fail transiently, Generate makes exactly N
\* attempts and fails with "all attempts failed" wrapping the N-th error.
C3_AllAttemptsFailed ==
    ( /\ g.pc = "done" /\ ctx = "live" /\ ReachedLoop
      /\ g.retries >= 1
      /\ \A k \in 1..g.retries : TransientAnswer(k) )
    => /\ Calls = g.retries
       /\ g.result = Fail(Wrap(<<"all", "attempts", "failed:">>,
                                makeRequest(backend[g.retries]).body))

C3_Witness ==
    /\ g.pc = "done" /\ ctx = "live"
    /\ g.retries = MaxRetries /\ Calls = MaxRetries
    /\ g.log[1] # g.log[MaxRetries]
    /\ g.result = Fail(Wrap(<<"all", "attempts", "failed:">>, g.log[MaxRetries].body))

(***************************************************************************)
(* Claims about the streaming path                                         *)
(***************************************************************************)
\* C4: every producer task (the adapter's, and the forwarder) closes its
\* output channel exactly once on every exit path and never sends on it
\* after closing it: no double close, no send on a closed channel, and a
\* task that has exited has closed its channel.
C4_ClosedExactlyOnce ==
    /\ chA.closes <= 1 /\ chN.closes <= 1
    /\ ~chA.bad /\ ~chN.bad
    /\ chA.closed => Drained(chA)
    /\ chN.closed => Drained(chN)
    /\ pr.pc = "exited" => (chA.closed /\ chA.closes = 1)
    /\ fw.pc = "exited" => (chN.closed /\ chN.closes = 1)

C4_Witness ==
    /\ pr.pc = "exited" /\ fw.pc = "exited"
    /\ ctx = "cancelled"
    /\ Len(sent) >= 1
    /\ chA.closes = 1 /\ chN.closes = 1

\* the terminator event of the event stream
DoneFrame == Frame(<<"[DONE]">>)

\* C5: once the response channel is closed, the handler of a stream=true
\* request has written data: [DONE] as the last frame of the event stream.
C5_DoneTerminator ==
    (sreq.consumer = "handler" /\ sreq.stream /\ co.pc = "done" /\ co.status = 200)
    => (co.frames # <<>> /\ co.frames[Len(co.frames)] = DoneFrame)

\* the frames of the responses the producer's channel delivered, in order
ExpectedFrames == [k \in 1..Len(sent) |-> Frame(Marshal(sent[k]).data)]

\* C6: the data frames the handler has written are the responses the
\* adapter's producer sent, in the same order, none lost or duplicated: a
\* prefix of them while the stream runs, all of them once the handler returns.
C6_FramesAreChunksInOrder ==
    sreq.consumer = "handler"
    => /\ Len(co.frames) <= Len(sent)
       /\ co.frames = SubSeq(ExpectedFrames, 1, Len(co.frames))
       /\ (co.pc = "done" /\ co.status = 200) => co.frames = ExpectedFrames

C6_Witness ==
    /\ sreq.consumer = "handler" /\ co.pc = "done"
    /\ Len(co.frames) = MaxWords
    /\ co.frames[1] # co.frames[MaxWords]
    /\ co.frames = ExpectedFrames

\* the stream's tasks have terminated
TasksExited == pr.pc = "exited" /\ (ViaService => fw.pc = "exited")

\* C7: after the context is cancelled, the producer and the forwarder of a
\* started stream eventually terminate (and so close their channels), even
\* when the consumer has stopped receiving.
C7_NoLeakedTask ==
    (ctx = "cancelled" /\ pr.pc # "unborn") ~> TasksExited

(***************************************************************************)
(* Claims about the registry                                               *)
(***************************************************************************)
\* task t takes the step that runs the body of RegisterProvider
RegisterBodyStep(t) == rp[t].pc = "reg.body" /\ rp'[t].pc = "reg.unlock"

\* task t takes the step that runs the body of GetProvider
GetBodyStep(t) == rp[t].pc = "get.body" /\ rp'[t].pc = "get.runlock"

\* C8: RegisterProvider of an adapter whose name is already registered fails
\* with the duplicate error and leaves the registry as it was: the name still
\* maps to the first adapter registered under it, no entry added or removed.
C8_DuplicateRejected ==
    [][\A t \in Tasks :
          (RegisterBodyStep(t) /\ providers[Name(rp[t].adapter)] # None)
          => /\ rp'[t].ret = RetErr(AlreadyRegistered(Name(rp[t].adapter)))
             /\ providers' = providers
             /\ providers'[Name(rp[t].adapter)] = ever[Name(rp[t].adapter)]]_vars

C8_Witness ==
    \E t \in Tasks :
        /\ rp[t].pc = "idle"
        /\ rp[t].adapter = "mock#2"
        /\ rp[t].ret = RetErr(AlreadyRegistered("mock"))
        /\ providers["mock"] = "mock#1"

\* C9: once RegisterProvider has succeeded for a name, every later
\* GetProvider of that name returns that adapter instance.
C9_LookupStable ==
    [][\A t \in Tasks :
          (GetBodyStep(t) /\ ever[rp[t].name] # None)
          => rp'[t].ret = RetAdapter(ever[rp[t].name])]_vars

C9_Witness ==
    \E t, u \in Tasks :
        /\ rp[t].pc = "idle" /\ rp[t].name = "mock"
        /\ rp[t].ret = RetAdapter("mock#2")
        /\ rp[u].ret = RetErr(AlreadyRegistered("mock"))
        /\ rp[u].adapter = "mock#1"

\* C10: GetProvider fails with the not-found error exactly when no adapter
\* was ever registered under the name, and a failed lookup leaves the
\* registry unchanged.
C10_NotFoundIffNeverRegistered ==
    [][\A t \in Tasks :
          GetBodyStep(t)
          => /\ (rp'[t].ret = RetErr(NotFound(rp[t].name))) <=> (ever[rp[t].name] = None)
             /\ rp'[t].ret.kind = "err" => rp'[t].ret = RetErr(NotFound(rp[t].name))
             /\ providers' = providers]_vars

C10_Witness ==
    \E t \in Tasks :
        /\ rp[t].pc = "idle" /\ rp[t].name = "mock"
        /\ rp[t].ret = RetErr(NotFound("mock"))
        /\ providers["openrouter"] # None
        /\ providers["mock"] = None

\* the steps at which ListProviders collects the names, and returns
ListBodyStep(t) == rp[t].pc = "list.body" /\ rp'[t].pc = "list.runlock"
ListReturnStep(t) == rp[t].pc = "list.runlock" /\ rp'[t].pc = "idle"

\* the names registered so far, by the history of successful registrations
RegisteredSoFar == {n \in Names : ever[n] # None}

\* l holds every member of S exactly once and nothing else
ExactlyOnce(l, S) ==
    /\ \A n \in S : Cardinality({i \in DOMAIN l : l[i] = n}) = 1
    /\ \A i \in DOMAIN l : l[i] \in S

\* C11: ListProviders returns exactly the names successfully registered at
\* the time it reads the map, each once and no other; GET /v1/providers
\* answers 200 with the list ListProviders returned.
C11_ListIsRegisteredSet ==
    [][\A t \in Tasks :
          /\ ListBodyStep(t) => ExactlyOnce(rp'[t].ret.names, RegisteredSoFar)
          /\ (ListReturnStep(t) /\ rp[t].via = "http")
                => /\ rp'[t].ret.status = 200
                   /\ rp'[t].ret.names = rp[t].ret.names]_vars

C11_Witness ==
    \E t \in Tasks :
        /\ rp[t].pc = "idle" /\ rp[t].via = "http"
        /\ rp[t].ret.status = 200
        /\ Len(rp[t].ret.names) = 2
        /\ rp[t].ret.names[1] = "openrouter"

EmptyPromptError == <<"empty", "prompt">>

\* C12: a Generate call with an empty prompt fails with the empty-prompt
\* error and nothing else has happened: no backend call, no rate-limiter
\* token, no sleep, whatever the options and the retry budget.
C12_EmptyPromptFirst ==
    (call.op = "Generate" /\ g.pc = "done" /\ call.prompt = <<>>)
    => /\ g.result = Fail(EmptyPromptError)
       /\ g.log = <<>>
       /\ g.tokens = 0
       /\ g.slept = 0

C12_Witness ==
    /\ call.op = "Generate" /\ g.pc = "done" /\ call.prompt = <<>>
    /\ call.limiter
    /\ call.opts = <<WithRetries(MaxRetries), WithTemperature(20)>>
    /\ g.result = Fail(EmptyPromptError)

\* the resolved options are out of range
OutOfRange(options) ==
    options.Temperature < 0 \/ options.Temperature > 10 \/ options.MaxTokens < 1

RateLimitCancelled == <<"rate", "limit", "exceeded:">> \o CtxErr

\* the call is over, its prompt was not empty, its options were out of range
InvalidOptionsCall ==
    g.pc = "done" /\ call.prompt # <<>> /\ OutOfRange(ResolveOptions(call.opts))

C14_TokenPerAttempt ==
    (call.op = "Generate" /\ call.limiter) => g.tokens >= Calls

\* C15: when the context is cancelled while Generate or Chat waits for a
\* rate-limiter token, the wait's failure ends the call at once with the
\* rate-limit cancellation error: no backend call has been or will be made,
\* no token was taken and no retry follows.
C15_RateLimitCancelFatal ==
    [][(g.pc \in {"wait", "chat.wait"} /\ ctx = "cancelled" /\ g' # g)
          => /\ g'.pc = "done"
             /\ g'.result = Fail(RateLimitCancelled)
             /\ g'.log = <<>>
             /\ g'.tokens = 0
             /\ g'.slept = 0]_vars

C15_Witness ==
    /\ g.pc = "done" /\ call.op = "Generate" /\ call.limiter
    /\ call.opts = <<WithRetries(MaxRetries)>>
    /\ ctx = "cancelled"
    /\ g.result = Fail(RateLimitCancelled)
    /\ g.log = <<>>

\* a Generate call that has returned, its context cancelled before it did
CancelledGenerate ==
    call.op = "Generate" /\ g.pc = "done" /\ ctx = "cancelled"

\* an error that says the context was cancelled
IsCancellation(err) == Contains(err, CtxErr)

NothingRouted ==
    co.lookups = 0 /\ co.calls = 0 /\ pr.pc = "unborn" /\ fw.pc = "unborn"

\* a POST with a body that decodes and neither a header nor a query selector
NoSelectorRequest ==
    /\ sreq.consumer = "handler" /\ sreq.body = "json"
    /\ sreq.header = "" /\ sreq.query = ""

\* C17: a POST /v1/chat/completions with a well-formed body and no provider
\* selector is answered 400, and at no point of its handling is the
\* registry looked up or an adapter called.
C17_NoSelectorIs400 ==
    NoSelectorRequest
    => /\ NothingRouted
       /\ co.pc = "done" => co.status = 400

C17_Witness ==
    /\ NoSelectorRequest /\ sreq.stream
    /\ co.pc = "done" /\ co.status = 400
    /\ co.body = <<"Provider", "not", "specified">>

\* a POST with a body that decodes, naming a provider nobody registered
UnknownProviderRequest ==
    /\ sreq.consumer = "handler" /\ sreq.body = "json"
    /\ sreq.provider # ""
    /\ sreq.provider \notin RegisteredSoFar

\* C18: a POST /v1/chat/completions naming an unregistered provider is
\* answered 500, with stream false and with stream true alike, and no
\* adapter is called and no stream task started for it.
C18_UnknownProviderIs500 ==
    UnknownProviderRequest
    => /\ co.calls = 0 /\ pr.pc = "unborn" /\ fw.pc = "unborn"
       /\ co.pc = "done" => co.status = 500

C18_Witness ==
    /\ UnknownProviderRequest
    /\ sreq.header = "" /\ sreq.query = "absent" /\ sreq.stream
    /\ co.pc = "done" /\ co.status = 500
    /\ co.frames = <<>>

\* C19: a POST /v1/chat/completions whose body does not decode is answered
\* 400 whatever its selector, and at no point of its handling is the
\* registry looked up or an adapter called.
C19_MalformedBodyIs400 ==
    (sreq.consumer = "handler" /\ sreq.body = "malformed")
    => /\ NothingRouted
       /\ co.pc = "done" => co.status = 400

C19_Witness ==
    /\ sreq.consumer = "handler" /\ sreq.body = "malformed"
    /\ sreq.header = "mock" /\ sreq.query = "openrouter"
    /\ co.pc = "done" /\ co.status = 400
    /\ co.body = <<"Invalid", "request", "body">>

\* a stream=true POST for a registered adapter whose backend call fails
FailedBackendStream ==
    /\ sreq.consumer = "handler" /\ sreq.body = "json" /\ sreq.stream
    /\ sreq.provider \in RegisteredSoFar
    /\ ~up.ok

\* C20: when the backend call fails inside a streaming adapter, StreamChat
\* has returned its channel and no error, no chunk is ever sent or written,
\* the channels are closed, and the client gets status 200 and an event
\* stream without a data event or an error frame.
C20_SilentStreamFailure ==
    FailedBackendStream
    => /\ sent = <<>> /\ chA.slot = <<>> /\ chN.slot = <<>>
       /\ co.frames = <<>>
       /\ co.status # 500
       /\ co.calls = 1 => co.pc \in {"recv", "done"}
       /\ co.pc = "done"
             => /\ co.status = 200 /\ co.body = <<>>
                /\ chA.closed /\ chN.closed

C20_Witness ==
    /\ FailedBackendStream
    /\ sreq.provider = "openrouter" /\ ctx = "live"
    /\ co.pc = "done" /\ co.status = 200 /\ co.frames = <<>>
    /\ pr.pc = "exited" /\ fw.pc = "exited"

(***************************************************************************)
(* Claims about the content of streams and responses                       *)
(***************************************************************************)
\* the message contents of a sequence of chunks, concatenated
RECURSIVE ConcatContent(_)
ConcatContent(chunks) ==
    IF chunks = <<>> THEN <<>>
    ELSE Head(chunks).content \o ConcatContent(Tail(chunks))

\* a stream=true request through the handler that ran to its end: the
\* backend answered and the context was never cancelled
CompletedStream ==
    /\ sreq.consumer = "handler" /\ sreq.body = "json" /\ sreq.stream
    /\ sreq.provider \in RegisteredSoFar
    /\ up.ok /\ ctx = "live"
    /\ co.pc = "done"

\* C21 as stated: the contents of the chunks of a completed stream,
\* concatenated, are the content the non-streaming path returns for the
\* same request.
C21_StreamEqualsChat ==
    CompletedStream => ConcatContent(sent) = ChatResponse.content

\* C21, amended: the concatenation is the non-streaming content for the
\* OpenRouter and example adapters, which send the Chat response as one
\* chunk; for the mock adapter, which sends every word followed by a space,
\* it is the non-streaming content followed by one space.
C21_StreamEqualsChatUpToSpace ==
    CompletedStream
    => ConcatContent(sent) =
          IF sreq.provider = "mock" THEN ChatResponse.content \o <<" ">>
          ELSE ChatResponse.content

C21_Witness ==
    /\ CompletedStream
    /\ sreq.provider = "mock"
    /\ Len(sent) = MaxWords
    /\ ConcatContent(sent) = up.content \o <<" ">>

\* a stream, through the handler or read by a caller, that ran to its end:
\* the backend answered every event and the context was never cancelled
CompletedAnyStream ==
    /\ sreq.body = "json" /\ sreq.stream
    /\ ViaService => sreq.provider \in RegisteredSoFar
    /\ up.ok /\ up.failAt = 0 /\ ctx = "live"
    /\ co.pc = "done" /\ sent # <<>>

\* C22: in a stream that completes without error or cancellation, every
\* chunk but the last has an empty finish_reason and the last chunk
\* delivered has a non-empty one.
C22_FinishReasonOnLastOnly ==
    CompletedAnyStream
    => /\ \A k \in 1..(Len(sent) - 1) : sent[k].finish = ""
       /\ sent[Len(sent)].finish # ""

\* a stream=false request to a registered provider, answered, whose Chat
\* succeeded
AnsweredChat ==
    /\ sreq.consumer = "handler" /\ sreq.body = "json" /\ ~sreq.stream
    /\ sreq.provider \in RegisteredSoFar
    /\ co.pc = "done"
    /\ ~ChatFails

\* C23: a stream=false request to a registered provider whose Chat succeeds
\* is answered 200 with the encoding of the very response the adapter
\* returned, and it took one lookup and one adapter call.
C23_ChatPassedThrough ==
    AnsweredChat
    => /\ co.status = 200
       /\ co.body = Marshal(ChatResponse).data
       /\ co.lookups = 1 /\ co.calls = 1
       /\ co.frames = <<>>

C23_Witness ==
    /\ AnsweredChat
    /\ sreq.header = "" /\ sreq.query = "mock"
    /\ up.content = <<"Hello!", " ", "mock">>
    /\ co.status = 200
    /\ co.body = <<"{", "id:", "mock-response-id", "content:", "Hello!", " ",
                   "mock", "finish_reason:", "stop", "}">>

(***************************************************************************)
(* Claims about the options and the configuration                          *)
(***************************************************************************)
\* the positions of the call-site options that set field op
Setters(opts, op) == {i \in DOMAIN opts : opts[i].op = op}

\* the last call-site option that sets field op
LastSetter(opts, op) ==
    opts[CHOOSE i \in Setters(opts, op) : \A j \in Setters(opts, op) : j <= i]

\* the step of Generate that resolves the options
ResolveStep == g.pc = "opts" /\ g'.pc # "opts"

\* C24: the options Generate resolves are the provider defaults overridden
\* field by field by the call-site options in the order given: for each of
\* temperature, max_tokens and model the last option that sets it wins, and
\* a field no option sets keeps the default of the configuration.
C24_LastOptionWins ==
    [][ResolveStep
          => /\ g'.options.Temperature =
                   IF Setters(call.opts, "Temperature") = {} THEN CfgTemperature
                   ELSE LastSetter(call.opts, "Temperature").n
             /\ g'.options.MaxTokens =
                   IF Setters(call.opts, "MaxTokens") = {} THEN CfgMaxTokens
                   ELSE LastSetter(call.opts, "MaxTokens").n
             /\ g'.options.Model =
                   IF Setters(call.opts, "Model") = {} THEN CfgModel
                   ELSE LastSetter(call.opts, "Model").s]_vars

C24_Witness ==
    /\ g.pc = "done" /\ call.op = "Generate"
    /\ call.opts = <<WithTemperature(20), WithTemperature(1)>>
    /\ g.options.Temperature = 1
    /\ g.options.MaxTokens = CfgMaxTokens
    /\ g.result.ok

\* a configuration Initialize must reject
BadConfig(cfg) ==
    \/ cfg.APIKey = ""
    \/ cfg.Model = ""
    \/ cfg.Temperature < 0 \/ cfg.Temperature > 10
    \/ cfg.MaxTokens < 1

\* C25: every call of Initialize returns an error exactly when the API key
\* or the model is empty, the temperature is outside [0,1] or max_tokens is
\* below 1; it makes no backend call and takes no token, leaves the
\* configuration as it was, and a repeated call returns what the first did.
C25_InitializeValidatesConfig ==
    /\ [](call.op = "Initialize"
            => /\ \A k \in DOMAIN g.inits :
                     /\ (g.inits[k] # NilErr) <=> BadConfig(call.cfg)
                     /\ g.inits[k] = g.inits[1]
               /\ g.log = <<>> /\ g.tokens = 0 /\ g.slept = 0)
    /\ [][call' = call]_vars

C25_Witness ==
    /\ call.op = "Initialize" /\ g.pc = "done"
    /\ Len(g.inits) = MaxInits
    /\ call.cfg.APIKey # "" /\ call.cfg.Model = ""
    /\ call.cfg.Temperature = CfgTemperature /\ call.cfg.MaxTokens = 1
    /\ g.inits[MaxInits] = <<"model", "is", "required">>

(***************************************************************************)
(* Claims about the registry under concurrent callers                      *)
(***************************************************************************)
\* task t's RegisterProvider has got its result; task t's GetProvider has
RegisterDone(t) ==
    rp[t].pc \in {"reg.unlock", "idle"} /\ rp[t].adapter # None
        /\ rp[t].ret # NoReturn
GetDone(t) ==
    /\ \/ rp[t].pc \in {"get.runlock", "svc.got", "svc.backend"}
       \/ rp[t].pc = "idle" /\ rp[t].via = "direct"
    /\ rp[t].name # None /\ rp[t].ret # NoReturn

\* C26: of two tasks that call RegisterProvider with adapters of one name,
\* never both succeed: a call returns nil or the duplicate error, whoever
\* succeeded is the adapter the name maps to, and GetProvider for a name
\* returns not-found or the adapter of the call that succeeded, whatever
\* the interleaving.
C26_OneRegistrationWins ==
    /\ \A t \in Tasks :
          RegisterDone(t)
          => /\ rp[t].ret \in {RetNil, RetErr(AlreadyRegistered(Name(rp[t].adapter)))}
             /\ providers[Name(rp[t].adapter)] # None
             /\ providers[Name(rp[t].adapter)] = ever[Name(rp[t].adapter)]
    /\ \A t, u \in Tasks :
          (t # u /\ RegisterDone(t) /\ RegisterDone(u)
             /\ Name(rp[t].adapter) = Name(rp[u].adapter))
          => ~(rp[t].ret = RetNil /\ rp[u].ret = RetNil)
    /\ \A t \in Tasks :
          GetDone(t)
          => \/ rp[t].ret = RetErr(NotFound(rp[t].name))
             \/ /\ ever[rp[t].name] # None
                /\ rp[t].ret = RetAdapter(ever[rp[t].name])

C26_Witness ==
    \E t, u \in Tasks :
        /\ t # u
        /\ rp[t].pc = "reg.unlock" /\ rp[t].adapter = "mock#1"
        /\ rp[t].ret = RetErr(AlreadyRegistered("mock"))
        /\ RegisterDone(u) /\ rp[u].adapter = "mock#2" /\ rp[u].ret = RetNil
        /\ ever["mock"] = "mock#2"

\* the program points of a task inside a map operation, the lock held
InWrite(t) == rp[t].pc \in {"reg.body", "reg.insert", "reg.unlock"}
InRead(t) == rp[t].pc \in {"get.body", "get.runlock", "list.body", "list.runlock"}
\* the task is in Service.Chat / Service.StreamChat past the lookup, the
\* adapter's call included
InBackendCall(t) == rp[t].pc \in {"svc.got", "svc.backend"}
\* the next step of a task inside a map operation
MapStep(t) ==
    \/ RegisterBody(t) \/ RegisterInsert(t) \/ RegisterUnlock(t)
    \/ GetBody(t) \/ GetRUnlock(t) \/ ListBody(t) \/ ListRUnlock(t)

\* C27: the lock is held exactly by the tasks inside a map operation, whose
\* next step is never blocked; a task in an adapter's Chat or StreamChat
\* holds no lock, so that when every other task is idle or in a backend
\* call, the RegisterProvider, GetProvider or ListProviders of a task can
\* take the lock.
C27_NoLockAcrossBackendCall ==
    /\ \A t \in Tasks :
          /\ (mu.writer = t) <=> InWrite(t)
          /\ (t \in mu.readers) <=> InRead(t)
          /\ InBackendCall(t) => (mu.writer # t /\ t \notin mu.readers)
          /\ (InWrite(t) \/ InRead(t)) => ENABLED MapStep(t)
    /\ \A t \in Tasks :
          (/\ rp[t].pc \in {"reg.lock", "get.rlock", "list.rlock"}
           /\ \A u \in Tasks \ {t} : rp[u].pc = "idle" \/ InBackendCall(u))
          => ENABLED (RegisterLock(t) \/ GetRLock(t) \/ ListRLock(t))

C27_Witness ==
    \E t, u \in Tasks :
        /\ t # u
        /\ rp[u].pc = "svc.backend"
        /\ rp[t].pc = "reg.unlock" /\ rp[t].ret = RetNil
        /\ mu.writer = t

\* no call-site option sets the retry budget
NoRetryOption == Setters(call.opts, "Retries") = {}

\* C28: a Generate call without a retry option has a budget of 1: it never
\* makes a second backend attempt and never sleeps; with a live context it
\* ends after exactly one attempt, and when that attempt fails transiently
\* the result is "all attempts failed" wrapping that attempt's error.
C28_DefaultBudgetIsOne ==
    (ReachedLoop /\ NoRetryOption)
    => /\ g.retries = 1
       /\ Calls <= 1
       /\ g.slept = 0
       /\ (g.pc = "done" /\ ctx = "live")
          => /\ Calls = 1
             /\ TransientAnswer(1)
                => g.result = Fail(Wrap(<<"all", "attempts", "failed:">>,
                                        makeRequest(backend[1]).body))

C28_Witness ==
    /\ g.pc = "done" /\ ctx = "live" /\ call.op = "Generate"
    /\ call.prompt # <<>> /\ call.opts = <<>>
    /\ Calls = 1 /\ g.slept = 0 /\ TransientAnswer(1)
    /\ ~g.result.ok
    /\ Contains(g.result.body, <<"all", "attempts", "failed:">>)

(***************************************************************************)
(* Claims about the stages of a request                                    *)
(***************************************************************************)
\* the steps between the stages of handleChat: received, decoded, selector
\* found, dispatched (a stream being written), answered
StageSteps ==
    {<<"start", "selector">>, <<"start", "done">>,
     <<"selector", "route">>, <<"selector", "done">>,
     <<"route", "recv">>, <<"route", "done">>,
     <<"recv", "write">>, <<"write", "recv">>, <<"recv", "done">>}

\* the request was answered with an error status
Errored == co.status >= 400

\* C29: a request goes through its stages in order: an adapter's Chat or
\* StreamChat is called at most once, from the routing stage of a request
\* not yet answered, and only for a decoded body, a non-empty selector and a
\* name the registry has; the producer of a stream exists only after that
\* call; a request answered with an error changes no more and gets no
\* adapter call.
C29_StagesInOrder ==
    /\ [](sreq.consumer = "handler"
          => /\ co.calls <= 1
             /\ co.calls >= 1
                => /\ sreq.body = "json"
                   /\ Selector(sreq.header, sreq.query) # ""
                   /\ Lookup(Selector(sreq.header, sreq.query)) # None
                   /\ co.lookups >= 1
             /\ pr.pc # "unborn" => co.calls >= 1)
    /\ [][sreq.consumer = "handler"
          => /\ co'.pc # co.pc => <<co.pc, co'.pc>> \in StageSteps
             /\ co'.calls # co.calls
                => /\ co.pc = "route" /\ co.status = 0
                   /\ co'.calls = co.calls + 1
             /\ Errored => (co' = co /\ pr' = pr /\ fw' = fw)]_vars

C29_Witness ==
    /\ sreq.consumer = "handler" /\ sreq.header = "mock" /\ sreq.stream
    /\ co.pc = "done" /\ co.status = 200
    /\ co.calls = 1 /\ co.lookups = 1
    /\ Len(co.frames) >= 2

\* C30: a request is dispatched by the "stream" member of its body alone:
\* when it is true only Service.StreamChat is called, when it is false or
\* absent only Service.Chat, whatever the selector and the provider; a
\* request that got past the selector check has called exactly one of them.
C30_DispatchByStreamFlag ==
    sreq.consumer = "handler"
    => /\ sreq.streamField = "true" => co.paths \subseteq {"StreamChat"}
       /\ sreq.streamField \in {"false", "absent"} => co.paths \subseteq {"Chat"}
       /\ co.pc \in {"recv", "write"} => co.paths = {"StreamChat"}
       /\ (co.pc = "done" /\ co.lookups >= 1) => Cardinality(co.paths) = 1
       /\ co.lookups = 0 => co.paths = {}

C30_Witness ==
    /\ sreq.consumer = "handler" /\ sreq.streamField = "absent"
    /\ sreq.query = "openrouter"
    /\ co.pc = "done" /\ co.status = 200
    /\ co.paths = {"Chat"}

(***************************************************************************)
(* Claims about backpressure and the end of a stream                       *)
(***************************************************************************)
\* the chunks whose send by the adapter's producer has completed, and the
\* chunks the transport consumer has received
HandedOff == Len(sent)
Received == Len(co.frames) + Len(co.resp)

\* C31: the channels of a stream hold no chunk beyond the one a blocked
\* sender offers: at any time at most one chunk has been handed off by the
\* producer and not yet received by the consumer, and the producer's send of
\* the next chunk completes only when the consumer has received every chunk
\* handed off before.
C31_SlowConsumerBlocksProducer ==
    /\ [](/\ Received <= HandedOff
          /\ HandedOff <= Received + 1
          /\ Len(chA.slot) <= 1 /\ Len(chN.slot) <= 1)
    /\ [][Len(sent') > Len(sent)
          => /\ Len(sent') = Len(sent) + 1
             /\ Received = Len(sent)]_vars

C31_Witness ==
    /\ ViaService
    /\ pr.pc = "send" /\ Offered(chA)
    /\ fw.pc = "send" /\ Offered(chN)
    /\ co.pc = "recv"
    /\ HandedOff = 1 /\ Received = 0

\* handleStreamChat got its channel from Service.StreamChat
StreamDispatched ==
    sreq.consumer = "handler" /\ co.paths = {"StreamChat"} /\ co.calls = 1

\* C32: handleStreamChat, once it has its channel, has returned only when
\* that channel is closed and every chunk sent on it has been received and
\* written; and as the producer ends its stream and the handler keeps
\* receiving, it does return.
C32_StreamEndsWhenClosedAndDrained ==
    /\ []((StreamDispatched /\ co.pc = "done")
          => /\ chN.closed /\ Drained(chN)
             /\ co.resp = <<>>
             /\ Len(co.frames) = Len(sent)
             /\ fw.pc = "exited")
    /\ []((StreamDispatched /\ chN.closed /\ Drained(chN) /\ co.resp = <<>>)
          => ENABLED (ConsClosed \/ ConsWrite) \/ co.pc = "done")
    /\ (StreamDispatched /\ co.pc \in {"recv", "write"}) ~> (co.pc = "done")

C32_Witness ==
    /\ StreamDispatched /\ co.pc = "done" /\ ctx = "live"
    /\ chN.closed /\ chA.closed
    /\ Len(co.frames) = MaxWords /\ Len(sent) = MaxWords

(***************************************************************************)
(* Claims about streams running at the same time                           *)
(***************************************************************************)
\* the chunks the producer of request r sends when it runs to the end
OwnChunks(r) ==
    [k \in 1..Len(rs[r].words) |-> Tagged(r, MockChunk(rs[r].words, k - 1))]

\* request r has called StreamChat
Started(r) == rs[r].co # "start"

\* C33: requests that stream at the same time share no channel, and the
\* chunks a consumer has received are the first chunks of its own request's
\* producer, in order, all of them once its stream has ended with its
\* context live, whatever the other request does; no channel is closed
\* twice or sent on after its close.
C33_StreamsDoNotInteract ==
    /\ \A r \in Streams :
          /\ Len(rs[r].got) <= Len(rs[r].words)
          /\ rs[r].got = SubSeq(OwnChunks(r), 1, Len(rs[r].got))
          /\ (rs[r].co = "done" /\ rs[r].ctx = "live") => rs[r].got = OwnChunks(r)
          /\ Started(r) => (rs[r].a # rs[r].n /\ {rs[r].a, rs[r].n} \subseteq DOMAIN heap)
    /\ \A r, q \in Streams :
          (r # q /\ Started(r) /\ Started(q))
          => {rs[r].a, rs[r].n} \cap {rs[q].a, rs[q].n} = {}
    /\ \A c \in DOMAIN heap : ~heap[c].bad

C33_Witness ==
    /\ rs[1].co = "recv" /\ rs[2].co = "recv"
    /\ rs[1].words = rs[2].words /\ Len(rs[1].words) = MaxWords
    /\ rs[1].pr.pc = "send" /\ rs[2].pr.pc = "send"
    /\ Len(rs[1].got) = 1 /\ rs[2].got = <<>>
    /\ rs[2].a < rs[1].a

(***************************************************************************)
(* Claims about the backoff and the retry budget                           *)
(***************************************************************************)
\* the seconds slept before the attempts 0 .. k-1
Backoff(k) == (k * (k - 1)) \div 2

\* C34: before attempt i > 0 Generate sleeps exactly i seconds and before
\* attempt 0 it does not sleep, so that after k attempts it has slept
\* k(k-1)/2 seconds; the sleep takes no token of the rate limiter, and the
\* seconds slept are the same with and without one.
C34_LinearBackoff ==
    /\ [](call.op = "Generate"
          => /\ g.pc = "request" => (g.attempt = Calls /\ g.slept = Backoff(Calls + 1))
             /\ g.pc # "request" => g.slept = Backoff(Calls)
             /\ g.tokens <= 1 /\ (~call.limiter => g.tokens = 0))
    /\ [][(call.op = "Generate" /\ g'.pc = "request" /\ g.pc # "request")
          => /\ g'.slept = g.slept + g.attempt
             /\ g.attempt = 0 => g.pc = "loop"
             /\ g.attempt > 0 => g.pc = "sleep"
             /\ g'.tokens = g.tokens]_vars

C34_Witness ==
    /\ call.op = "Generate" /\ call.limiter /\ g.pc = "done"
    /\ Calls = MaxRetries /\ g.slept = Backoff(MaxRetries)
    /\ g.slept >= 3 /\ g.tokens = 1

\* what makeRequest returns when the context is cancelled
CancelledAttempt == makeRequest(NetErr(CtxErr))

\* C35: a Generate that sleeps before attempt i leaves the sleep only with
\* the full i seconds slept and on to the backend call, cancelled context
\* or not; with the context cancelled that call is still made and fails,
\* and the next step returns its error as it is, with no further attempt.
C35_BackoffIgnoresCancellation ==
    /\ [][(call.op = "Generate" /\ g.pc = "sleep" /\ g' # g)
          => /\ g'.pc = "request"
             /\ g'.slept = g.slept + g.attempt
             /\ g'.attempt = g.attempt /\ g'.log = g.log]_vars
    /\ [][(call.op = "Generate" /\ g.pc = "request" /\ ctx = "cancelled" /\ g' # g)
          => /\ g'.log = Append(g.log, CancelledAttempt)
             /\ ~CancelledAttempt.ok
             /\ g'.pc = "classify" /\ g'.err = CancelledAttempt.body
             /\ g'.slept = g.slept]_vars
    /\ [][(call.op = "Generate" /\ g.pc = "classify" /\ ctx = "cancelled" /\ g' # g)
          => /\ g'.pc = "done"
             /\ g'.result = Fail(g.log[Len(g.log)].body)
             /\ g'.log = g.log /\ g'.slept = g.slept]_vars
    /\ [](call.op = "Generate" /\ g.pc = "classify"
          => (g.log # <<>> /\ g.err = g.log[Len(g.log)].body))

C35_Witness ==
    /\ call.op = "Generate" /\ g.pc = "done" /\ ctx = "cancelled"
    /\ g.retries = MaxRetries
    /\ Calls = 2 /\ g.slept = 1
    /\ ~g.log[1].ok /\ g.log[2] = CancelledAttempt
    /\ g.result = Fail(CancelledAttempt.body)

\* the retry budget of the call: that of the last WithRetries among its
\* options, 1 when there is none
Budget ==
    IF NoRetryOption THEN 1 ELSE LastSetter(call.opts, "Retries").n
Max(a, b) == IF a >= b THEN a ELSE b

\* C36: a Generate call with retry budget N never makes more than
\* max(N, 0) backend attempts, whatever the backend answers and whenever
\* the context is cancelled.
C36_AttemptsWithinBudget ==
    call.op = "Generate" => Calls <= Max(Budget, 0)

C36_Witness ==
    /\ call.op = "Generate" /\ g.pc = "done"
    /\ Budget = 2 /\ Calls = 2
    /\ ~g.log[1].ok /\ ~g.log[2].ok
    /\ Contains(g.result.body, <<"all", "attempts", "failed:">>)

\* the call got past the rate-limiter wait, or has no limiter
PastLimiter == call.limiter => g.tokens = 1

LimitedInvalidCall ==
    /\ call.op = "Generate" /\ call.limiter
    /\ call.prompt # <<>> /\ OutOfRange(ResolveOptions(call.opts))

\* C38: the wait for a rate-limiter token comes before the options are
\* resolved and validated: a call with a non-empty prompt and out-of-range
\* options fails with the validation error only with one token taken, and
\* when the context is cancelled at the wait it returns the rate-limit
\* error with no token taken and the options unresolved.
C38_LimiterBeforeValidation ==
    /\ [](LimitedInvalidCall
          => /\ g.pc = "opts" => g.tokens = 1
             /\ g.pc = "done"
                => /\ Calls = 0
                   /\ \/ /\ g.tokens = 1
                         /\ g.result = Fail(ValidateOptions(ResolveOptions(call.opts)))
                      \/ /\ g.tokens = 0 /\ ctx = "cancelled"
                         /\ g.result = Fail(RateLimitCancelled))
    /\ [][(LimitedInvalidCall /\ g.pc = "start" /\ g' # g) => g'.pc = "wait"]_vars
    /\ [][(LimitedInvalidCall /\ g.pc = "wait" /\ g' # g)
          => IF ctx = "cancelled"
             THEN g'.pc = "done" /\ g'.result = Fail(RateLimitCancelled)
                  /\ g'.tokens = 0 /\ g'.options = g.options
             ELSE g'.pc = "opts" /\ g'.tokens = 1]_vars

C38_Witness ==
    /\ LimitedInvalidCall /\ g.pc = "done" /\ ctx = "live"
    /\ call.opts = <<WithTemperature(20)>>
    /\ g.tokens = 1 /\ Calls = 0
    /\ g.result = Fail(<<"invalid", "temperature:", "must", "be", "between",
                         "0", "and", "1">>)

====
